---- MODULE Spec2Model ----
(***************************************************************************)
(* A model of the Kidder article pipeline's article processor              *)
(* (scripts/process_articles.py): repeated runs of main() over an archive  *)
(* folder, with the persisted fingerprint state (state.json), the          *)
(* persisted output collection (data.json) and the missing-date report.    *)
(*                                                                         *)
(* Strings that the code only compares are kept as strings; the two string *)
(* orders the final sort uses (dates, titles) are given by rank functions. *)
(* A file's bytes are a content id: 0 = no such file, 1 = a document whose *)
(* extraction yields no words, 2 = text without a long-form date, 3 = text *)
(* with the long-form date "2024-03-01" in its first lines.  The wall      *)
(* clock is read where the code reads it (updatedAt, generatedAt) and has  *)
(* moved on by one second when a run writes its output.                    *)
(***************************************************************************)
EXTENDS Integers, Sequences, FiniteSets, TLC

\* ------------------------------------------------------------- bounds
\* Runs of main() in one behaviour.
MaxRuns == 2
\* Length of the output collection found on disk before the first run.
MaxSeedLen == 2

\* ------------------------------------------------------------ universe
\* The documents the archive folder may hold, in the order sorted() lists them.
NameOrder == <<"a.docx", "b.docx">>

Names == {NameOrder[k] : k \in DOMAIN NameOrder}

Contents == {1, 2, 3}

\* Path.stem of a document name.
Stem(name) == CASE name = "a.docx" -> "a"
                [] name = "b.docx" -> "b"
                [] OTHER -> name

\* Python's order on the date strings that occur: "" sorts first.
DateRank(d) == CASE d = "" -> 0
                 [] d = "2024-03-01" -> 1
                 [] d = "2024-03-02" -> 2
                 [] OTHER -> 3

\* Python's order on the title strings that occur: "" < "A" < "B" < "Z" < "a" < "b".
TitleRank(t) == CASE t = "" -> 0
                  [] t = "A" -> 1
                  [] t = "B" -> 2
                  [] t = "Z" -> 3
                  [] t = "a" -> 4
                  [] t = "b" -> 5
                  [] OTHER -> 6

\* ------------------------------------------------------- pure functions
\* sha256_file: the digest of a file's bytes; distinct contents, distinct digests,
\* and never the empty string that stands for "no previous hash".
sha256_file(c) == CASE c = 1 -> "sha-1"
                    [] c = 2 -> "sha-2"
                    [] c = 3 -> "sha-3"
                    [] OTHER -> "sha-0"

NoHash == ""

\* run_pandoc_extract(p) or docx_extract_fallback(p), normalized, then word_count.
word_count(c) == IF c = 1 THEN 0 ELSE 40 + c

\* ----------------------------------------------------------------- dates
\* What re.search finds is given, not computed: a match is the tuple of its
\* groups as integers, NoDate says the pattern does not occur. A function that
\* returns None returns "" here; Python's `or` treats both alike.
NoDate == <<>>

HeadLines == 20

IsLeap(y) == (y % 4 = 0 /\ y % 100 # 0) \/ y % 400 = 0

DaysIn(y, mo) ==
    CASE mo \in {4, 6, 9, 11} -> 30
      [] mo = 2 -> IF IsLeap(y) THEN 29 ELSE 28
      [] OTHER -> 31

\* datetime(y, mo, d) does not raise ValueError.
ValidDate(y, mo, d) == mo \in 1..12 /\ d \in 1..DaysIn(y, mo)

Pad2(n) == IF n < 10 THEN "0" \o ToString(n) ELSE ToString(n)

\* strftime("%Y-%m-%d") for a year of four digits.
strftime(y, mo, d) == ToString(y) \o "-" \o Pad2(mo) \o "-" \o Pad2(d)

\* try: return datetime(y, mo, d).strftime("%Y-%m-%d"); except ValueError: pass
DateOrNone(y, mo, d) == IF ValidDate(y, mo, d) THEN strftime(y, mo, d) ELSE ""

\* Lines 97-116 after the two searches: iso is the first match of
\* (20dd)[-_](d{1,2})[-_](d{1,2}) in the stem, groups y, mo, d; us the first
\* match of (d{1,2})[-_](d{1,2})[-_](20dd), groups mo, d, y.
FilenameDate(iso, us) ==
    LET a == IF iso # NoDate THEN DateOrNone(iso[1], iso[2], iso[3]) ELSE ""
    IN  IF a # "" THEN a
        ELSE IF us # NoDate THEN DateOrNone(us[3], us[1], us[2]) ELSE ""

\* Line 133: month_map, on the first three letters of the month in lower case.
month_map(mon) ==
    CASE mon = "jan" -> 1 [] mon = "feb" -> 2 [] mon = "mar" -> 3 [] mon = "apr" -> 4
      [] mon = "may" -> 5 [] mon = "jun" -> 6 [] mon = "jul" -> 7 [] mon = "aug" -> 8
      [] mon = "sep" -> 9 [] mon = "oct" -> 10 [] mon = "nov" -> 11 [] mon = "dec" -> 12
      [] OTHER -> 0

\* The long-form dates ("March 5, 2024") of a text, in the order they occur: the
\* line each stands on and its groups.
LongForm(line, mon, day, year) == [line |-> line, mon |-> mon, day |-> day, year |-> year]

\* Lines 119-139: the first match within the first HeadLines lines, if any, is
\* the only one looked at.
TextDate(matches) ==
    LET head == SelectSeq(matches, LAMBDA m : m.line <= HeadLines)
    IN  IF head = <<>> THEN ""
        ELSE LET m == head[1]
                 mo == month_map(m.mon)
             IN  IF mo # 0 THEN DateOrNone(m.year, mo, m.day) ELSE ""

\* Faulty variant: the service's date goes before the deterministic one.
final_date_ai_first(guess, date_ai) == IF date_ai # "" THEN date_ai ELSE guess

\* Line 265: final_date = date_guess or date_ai or "".
final_date(guess, date_ai) == IF guess # "" THEN guess ELSE date_ai

\* Line 266: date_source.
date_source(guess, date_ai) ==
    IF guess # "" THEN "filename/text" ELSE IF date_ai # "" THEN "ai" ELSE ""

\* The long-form dates in the text of a document with content c.
LongFormIn(c) == IF c = 3 THEN <<LongForm(1, "mar", 1, 2024)>> ELSE <<>>

\* parse_date_from_text on the extracted text.
parse_date_from_text(c) == TextDate(LongFormIn(c))

\* parse_date_from_filename: no modelled document name carries a date.
parse_date_from_filename(name) == FilenameDate(NoDate, NoDate)

\* date_guess = parse_date_from_filename(p.name) or parse_date_from_text(text) or ""
date_guess(name, c) ==
    IF parse_date_from_filename(name) # "" THEN parse_date_from_filename(name)
    ELSE parse_date_from_text(c)

\* The answers of the inference service: title and date of the parsed JSON.
Metas == [title : {"", "A"}, date : {"", "2024-03-02"}]

\* The Article main() builds for document `name` with content c, answer meta, at time t.
MakeArticle(name, c, meta, t) ==
    LET title == IF meta.title # "" THEN meta.title ELSE Stem(name)
        dg == date_guess(name, c)
    IN [sourceFile |-> name, title |-> title, date |-> final_date(dg, meta.date),
        dateSource |-> date_source(dg, meta.date), wordCount |-> word_count(c), updatedAt |-> t]

\* ------------------------------------------------- collection operators
\* Faulty variant: --prune removes nothing.
PruneNothing(arts, existing_names) == arts

\* Faulty variant: the prune test is inverted, dropping the Articles of listed documents.
PruneInverted(arts, existing_names) ==
    SelectSeq(arts, LAMBDA a : ~(a.sourceFile # "" /\ a.sourceFile \in existing_names))

\* Faulty variant: --prune drops every Article that names a sourceFile.
PruneAll(arts, existing_names) == SelectSeq(arts, LAMBDA a : a.sourceFile = "")

\* --prune (lines 201-212): drop the Articles whose sourceFile is set and not listed.
Prune(arts, existing_names) ==
    SelectSeq(arts, LAMBDA a : ~(a.sourceFile # "" /\ a.sourceFile \notin existing_names))

\* The linear scan of lines 281-285: the first index holding sourceFile `name`, or 0.
FirstIndex(arts, name) ==
    IF \E k \in DOMAIN arts : arts[k].sourceFile = name
    THEN CHOOSE k \in DOMAIN arts :
            /\ arts[k].sourceFile = name
            /\ \A j \in 1..(k - 1) : arts[j].sourceFile # name
    ELSE 0

\* Lines 287-292: append, or replace the first match in place.
Upsert(arts, article) ==
    LET k == FirstIndex(arts, article.sourceFile)
    IN IF k = 0 THEN Append(arts, article) ELSE [arts EXCEPT ![k] = article]

\* The keys of the dict of lines 312-316, in insertion (first occurrence) order.
RECURSIVE DedupKeys(_, _)
DedupKeys(arts, seen) ==
    IF arts = <<>> THEN <<>>
    ELSE LET sf == Head(arts).sourceFile
         IN IF sf = "" \/ sf \in seen
            THEN DedupKeys(Tail(arts), seen)
            ELSE <<sf>> \o DedupKeys(Tail(arts), seen \cup {sf})

\* The value the dict ends with for key sf: the last Article written under it.
LastWith(arts, sf) ==
    arts[CHOOSE k \in DOMAIN arts :
            /\ arts[k].sourceFile = sf
            /\ \A j \in (k + 1)..Len(arts) : arts[j].sourceFile # sf]

\* Faulty variant: no deduplication, every Article with a sourceFile is kept.
DedupNone(arts) == SelectSeq(arts, LAMBDA a : a.sourceFile # "")

\* dedup.values() after lines 312-316.
Dedup(arts) ==
    LET keys == DedupKeys(arts, {})
    IN [k \in 1..Len(keys) |-> LastWith(arts, keys[k])]

\* The sort key of line 320 compared as Python compares tuples of strings.
KeyLess(x, y) ==
    \/ DateRank(x.date) < DateRank(y.date)
    \/ DateRank(x.date) = DateRank(y.date) /\ TitleRank(x.title) < TitleRank(y.title)

KeyEq(x, y) == x.date = y.date /\ x.title = y.title

\* Faulty variant: the sort key is the date alone.
InsertDescByDate(sorted, x) ==
    LET smaller == {k \in DOMAIN sorted : DateRank(sorted[k].date) < DateRank(x.date)}
        pos == IF smaller = {} THEN Len(sorted) + 1
               ELSE CHOOSE k \in smaller : \A j \in smaller : k <= j
    IN SubSeq(sorted, 1, pos - 1) \o <<x>> \o SubSeq(sorted, pos, Len(sorted))

\* One insertion of a stable descending sort: x goes before the first element
\* whose key is smaller, hence after every element that compares equal.
InsertDesc(sorted, x) ==
    LET smaller == {k \in DOMAIN sorted : KeyLess(sorted[k], x)}
        pos == IF smaller = {} THEN Len(sorted) + 1
               ELSE CHOOSE k \in smaller : \A j \in smaller : k <= j
    IN SubSeq(sorted, 1, pos - 1) \o <<x>> \o SubSeq(sorted, pos, Len(sorted))

\* sorted(..., reverse=True) of lines 318-322: descending, equal keys keep their order.
RECURSIVE SortFrom(_, _)
SortFrom(done, rest) ==
    IF rest = <<>> THEN done ELSE SortFrom(InsertDesc(done, Head(rest)), Tail(rest))

\* Faulty variant: an ascending stable sort followed by a reversal, which also reverses
\* the Articles that compare equal.
RECURSIVE SortedThenReversed(_)
SortedThenReversed(arts) ==
    IF arts = <<>> THEN <<>>
    ELSE LET rest == SortedThenReversed(Tail(arts))
             x == Head(arts)
             smaller == {k \in DOMAIN rest : KeyLess(rest[k], x)}
             pos == IF smaller = {} THEN Len(rest) + 1
                    ELSE CHOOSE k \in smaller : \A j \in smaller : k <= j
         IN SubSeq(rest, 1, pos - 1) \o <<x>> \o SubSeq(rest, pos, Len(rest))

SortedArticles(arts) == SortFrom(<<>>, arts)

\* ---------------------------------------------------------------- state
VARIABLES
    folder,             \* the archive folder: document name -> content id (0: absent)
    stateFile,          \* state.json: document name -> stored fingerprint (NoHash: none)
    outFile,            \* data.json: [exists, generatedAt, articles, errors]
    csvFile,            \* missing_dates.csv: its rows, the header row first
    now,                \* the wall clock, in seconds
    pc,                 \* where main() is: idle, loop, save_state, write_csv
    runs,               \* runs started so far
    args,               \* [resume, prune] of the current run
    state,              \* main's `state`
    articles,           \* main's `articles`
    docx_files,         \* main's `docx_files`
    i,                  \* index of the loop of line 231
    errors,             \* main's `errors`
    updated,            \* main's `updated`
    missing_date_rows,  \* main's `missing_date_rows`
    dedup,              \* dedup.values() of line 319
    exitCode,           \* the exit status of the last run (-1: none yet)
    carried,            \* history: `articles` as loaded at line 196, before pruning
    outcome,            \* history: what the current run did with each document
    prev,               \* history: the persisted results found at the start of this run
    quiet               \* history: the last run completed and nothing was touched since

\* The attachment fetcher (email_ingest.py), a process of its own.
VARIABLES
    env,                \* which of the two credentials the environment holds (lines 38-39)
    out_dir,            \* the files in the output folder, by name
    dir_made,           \* out_dir.mkdir has run (line 46)
    contacted,          \* the connection to the mailbox was opened (line 48)
    seen,               \* the messages that carry \Seen on the server
    fpc,                \* where the fetcher is
    ids,                \* the message ids the search returned (line 58)
    msg,                \* the place in ids of the message at hand (line 65)
    walked,             \* the parts of that message walked so far (line 78)
    saved_any,          \* line 63
    saved_this_msg,     \* line 77
    fexit,              \* the fetcher's exit status, -1 while it runs
    stored,             \* history: the messages line 119 was issued for
    savedFrom,          \* history: the files written from each message in this run
    lastSave            \* history: the last write, with the folder as it was before

\* Date resolution for one document (lines 97-139, 254-266).
VARIABLES
    doc,                \* what the patterns find in its name and text, and the service's date
    resolved            \* the date and provenance of its Article, once resolved

processor == <<folder, stateFile, outFile, csvFile, now, pc, runs, args, state, articles,
               docx_files, i, errors, updated, missing_date_rows, dedup, exitCode,
               carried, outcome, prev, quiet>>

fetcher == <<env, out_dir, dir_made, contacted, seen, fpc, ids, msg, walked, saved_any,
             saved_this_msg, fexit, stored, savedFrom, lastSave>>

dates == <<doc, resolved>>

vars == <<processor, fetcher, dates>>

persisted == <<stateFile, outFile, csvFile>>

memory == <<args, state, articles, docx_files, i, errors, updated, missing_date_rows,
            dedup, carried, outcome, prev>>

\* An Article of a collection written before the first modelled run.
Old(sf, title, date) ==
    [sourceFile |-> sf, title |-> title, date |-> date,
     dateSource |-> IF date = "" THEN "" ELSE "ai", wordCount |-> 7, updatedAt |-> 0]

SeedArticles ==
    { Old("a.docx", "B", ""), Old("a.docx", "A", "2024-03-01"),
      Old("b.docx", "A", "2024-03-01"), Old("c.docx", "Z", ""), Old("", "Z", "") }

\* The collections data.json may hold before the first run: any short sequence of
\* seed Articles, repeated sourceFile values included.
SeedCollections ==
    UNION {[1..n -> SeedArticles] : n \in 0..MaxSeedLen}

NoOutcome == [n \in Names |-> "-"]

NoOutput == [exists |-> FALSE, generatedAt |-> 0, articles |-> <<>>, errors |-> <<>>]

NoArgs == [resume |-> FALSE, prune |-> FALSE]

NoPrev == [valid |-> FALSE, out |-> NoOutput, outcome |-> NoOutcome, args |-> NoArgs]

\* The process is gone: its variables are back to what a new process starts with.
ProcessGone ==
    /\ args' = NoArgs
    /\ state' = [n \in Names |-> NoHash]
    /\ articles' = <<>>
    /\ docx_files' = <<>>
    /\ i' = 1
    /\ errors' = <<>>
    /\ updated' = 0
    /\ missing_date_rows' = <<>>
    /\ dedup' = <<>>
    /\ carried' = <<>>
    /\ outcome' = NoOutcome
    /\ prev' = NoPrev

\* The fetcher is not part of the behaviour: it never starts.
NoName == [stem |-> "", suffix |-> ""]

NoSave == [valid |-> FALSE, from |-> 0, clean |-> NoName, target |-> NoName, before |-> {}]

FetcherAbsent ==
    /\ env = [user |-> FALSE, app_pass |-> FALSE]
    /\ out_dir = {}
    /\ dir_made = FALSE
    /\ contacted = FALSE
    /\ seen = {}
    /\ fpc = "absent"
    /\ ids = <<>>
    /\ msg = 1
    /\ walked = 0
    /\ saved_any = FALSE
    /\ saved_this_msg = FALSE
    /\ fexit = -1
    /\ stored = {}
    /\ savedFrom = <<>>
    /\ lastSave = NoSave

\* No date is being resolved.
NoDoc == [iso |-> NoDate, us |-> NoDate, text |-> <<>>, ai |-> ""]

Unresolved == [done |-> FALSE, date |-> "", dateSource |-> ""]

DatesAbsent ==
    /\ doc = NoDoc
    /\ resolved = Unresolved

CsvHeader == <<"sourceFile", "title", "wordCount">>

InitProcessor ==
    /\ folder = [n \in Names |-> 0]
    /\ stateFile = [n \in Names |-> NoHash]
    /\ \/ outFile = NoOutput
       \/ \E seed \in SeedCollections :
             outFile = [exists |-> TRUE, generatedAt |-> 0, articles |-> seed, errors |-> <<>>]
    /\ csvFile = <<>>
    /\ now = 1
    /\ pc = "idle"
    /\ runs = 0
    /\ args = NoArgs
    /\ state = [n \in Names |-> NoHash]
    /\ articles = <<>>
    /\ docx_files = <<>>
    /\ i = 1
    /\ errors = <<>>
    /\ updated = 0
    /\ missing_date_rows = <<>>
    /\ dedup = <<>>
    /\ exitCode = -1
    /\ carried = <<>>
    /\ outcome = NoOutcome
    /\ prev = NoPrev
    /\ quiet = FALSE

Init == InitProcessor /\ FetcherAbsent /\ DatesAbsent

\* ------------------------------------------------------------ environment
\* Between runs a document is added, deleted or rewritten in the archive folder.
EditFolder(name, c) ==
    /\ pc = "idle"
    /\ runs < MaxRuns
    /\ folder[name] # c
    /\ folder' = [folder EXCEPT ![name] = c]
    /\ quiet' = FALSE
    /\ UNCHANGED <<persisted, memory, now, pc, runs, exitCode>>
    /\ UNCHANGED <<fetcher, dates>>

\* ------------------------------------------------------------------ main
\* sorted(folder.glob("*.docx")) of line 198.
Listing(f) == SelectSeq(NameOrder, LAMBDA n : f[n] # 0)

ListedNames == {docx_files[k] : k \in DOMAIN docx_files}

\* Lines 181-222 when the folder is missing, no API key is given or the openai
\* package is absent: exit 1, nothing written.
FatalExit ==
    /\ pc = "idle"
    /\ runs < MaxRuns
    /\ runs' = runs + 1
    /\ exitCode' = 1
    /\ quiet' = FALSE
    /\ ProcessGone
    /\ UNCHANGED <<folder, persisted, now, pc>>
    /\ UNCHANGED <<fetcher, dates>>

\* Lines 177-229: load state and (with --resume) the output, list the folder, prune.
StartRun(resume, prune) ==
    /\ pc = "idle"
    /\ runs < MaxRuns
    /\ runs' = runs + 1
    /\ args' = [resume |-> resume, prune |-> prune]
    /\ state' = stateFile
    /\ carried' = IF resume /\ outFile.exists THEN outFile.articles ELSE <<>>
    /\ docx_files' = Listing(folder)
    /\ articles' = IF prune
                   THEN Prune(carried', {n \in Names : folder[n] # 0})
                   ELSE carried'
    /\ errors' = <<>>
    /\ updated' = 0
    /\ missing_date_rows' = <<>>
    /\ dedup' = <<>>
    /\ i' = 1
    /\ pc' = "loop"
    /\ exitCode' = -1
    /\ outcome' = NoOutcome
    /\ prev' = IF quiet
               THEN [valid |-> TRUE, out |-> outFile, outcome |-> outcome, args |-> args]
               ELSE NoPrev
    /\ quiet' = FALSE
    /\ UNCHANGED <<folder, persisted, now>>
    /\ UNCHANGED <<fetcher, dates>>

InLoop == pc = "loop" /\ i \in DOMAIN docx_files

\* Faulty variant: the stored fingerprint is looked up under a key that is never stored,
\* so no document is ever found unchanged.
AlreadyWrongKey(p) == NoHash = sha256_file(folder[p])

\* Line 234: already = (prev_hash == file_hash).
Already(p) == state[p] = sha256_file(folder[p])

\* Faulty variant: the zero-word check never fires.
ZeroWordsNever(c) == word_count(c) < 0

\* Line 248: wc == 0.
ZeroWords(c) == word_count(c) = 0

\* Faulty variant: line 251 is missing.
StoreHashEmptyMissing(st, p, h) == st

\* Faulty variant: the fingerprint is stored inside the try block, only on success.
AfterAttemptOnlyOk(st, p, h, ok) == IF ok THEN [st EXCEPT ![p] = h] ELSE st

\* Faulty variant: the fingerprint is stored under another document's name.
AfterAttemptOtherKey(st, p, h, ok) ==
    [st EXCEPT ![CHOOSE m \in Names : m # p] = h]

\* Faulty variant: the error record does not name the document.
RecordErrorNoFile(errs, p) == Append(errs, [file |-> ""])

\* Lines 304-305: err = {"file": p.name, "error": str(e)}; errors.append(err).
RecordError(errs, p) == Append(errs, [file |-> p])

\* Line 251: state.setdefault("files", {})[p.name] = file_hash, for a document
\* without words.
StoreHashEmpty(st, p, h) == [st EXCEPT ![p] = h]

\* Line 309: the same assignment after the try block, reached whether the
\* inference succeeded (ok) or threw.
AfterAttempt(st, p, h, ok) == [st EXCEPT ![p] = h]

\* Lines 236-239: --resume and an unchanged fingerprint.
SkipUnchanged ==
    /\ InLoop
    /\ LET p == docx_files[i]
       IN /\ args.resume /\ Already(p)
          /\ outcome' = [outcome EXCEPT ![p] = "skip"]
    /\ i' = i + 1
    /\ UNCHANGED <<folder, persisted, now, pc, runs, args, state, articles, docx_files,
                   errors, updated, missing_date_rows, dedup, exitCode, carried, prev,
                   quiet>>
    /\ UNCHANGED <<fetcher, dates>>

\* Lines 244-252: no words extracted.
SkipZeroWords ==
    /\ InLoop
    /\ LET p == docx_files[i]
       IN /\ ~(args.resume /\ Already(p))
          /\ ZeroWords(folder[p])
          /\ state' = StoreHashEmpty(state, p, sha256_file(folder[p]))
          /\ outcome' = [outcome EXCEPT ![p] = "empty"]
    /\ i' = i + 1
    /\ UNCHANGED <<folder, persisted, now, pc, runs, args, articles, docx_files,
                   errors, updated, missing_date_rows, dedup, exitCode, carried, prev,
                   quiet>>
    /\ UNCHANGED <<fetcher, dates>>

\* Lines 254-301 and 309: the inference call answers `meta`.
ProcessOk(meta) ==
    /\ InLoop
    /\ LET p == docx_files[i]
           article == MakeArticle(p, folder[p], meta, now)
       IN /\ ~(args.resume /\ Already(p))
          /\ ~ZeroWords(folder[p])
          /\ articles' = Upsert(articles, article)
          /\ updated' = updated + 1
          /\ missing_date_rows' =
                IF article.date = ""
                THEN Append(missing_date_rows, <<p, article.title, article.wordCount>>)
                ELSE missing_date_rows
          /\ state' = AfterAttempt(state, p, sha256_file(folder[p]), TRUE)
          /\ outcome' = [outcome EXCEPT ![p] = "ok"]
    /\ i' = i + 1
    /\ UNCHANGED <<folder, persisted, now, pc, runs, args, docx_files, errors, dedup,
                   exitCode, carried, prev, quiet>>
    /\ UNCHANGED <<fetcher, dates>>

\* Lines 256-257 and 303-309: the inference call or the parsing of its answer throws.
ProcessFail ==
    /\ InLoop
    /\ LET p == docx_files[i]
       IN /\ ~(args.resume /\ Already(p))
          /\ ~ZeroWords(folder[p])
          /\ errors' = RecordError(errors, p)
          /\ state' = AfterAttempt(state, p, sha256_file(folder[p]), FALSE)
          /\ outcome' = [outcome EXCEPT ![p] = "fail"]
    /\ i' = i + 1
    /\ UNCHANGED <<folder, persisted, now, pc, runs, args, articles, docx_files,
                   updated, missing_date_rows, dedup, exitCode, carried, prev, quiet>>
    /\ UNCHANGED <<fetcher, dates>>

\* Lines 312-325: dedup, sort, and save_json(out_json, payload).  datetime.now() is
\* read for generatedAt; the write falls in a later second than the run's start.
SaveOutput ==
    /\ pc = "loop" /\ i > Len(docx_files)
    /\ dedup' = Dedup(articles)
    /\ articles' = SortedArticles(dedup')
    /\ now' = now + 1
    /\ outFile' = [exists |-> TRUE, generatedAt |-> now', articles |-> articles',
                   errors |-> errors]
    /\ pc' = "save_state"
    /\ UNCHANGED <<folder, stateFile, csvFile, runs, args, state, docx_files, i, errors,
                   updated, missing_date_rows, exitCode, carried, outcome, prev, quiet>>
    /\ UNCHANGED <<fetcher, dates>>

\* Line 326: save_json(state_path, state).
SaveState ==
    /\ pc = "save_state"
    /\ stateFile' = state
    /\ pc' = "write_csv"
    /\ UNCHANGED <<folder, outFile, csvFile, now, runs, memory, exitCode, quiet>>
    /\ UNCHANGED <<fetcher, dates>>

\* Lines 328-343: the missing-date report, then sys.exit(10 if updated > 0 else 0).
WriteCsv ==
    /\ pc = "write_csv"
    /\ csvFile' = <<CsvHeader>> \o missing_date_rows
    /\ exitCode' = IF updated > 0 THEN 10 ELSE 0
    /\ pc' = "idle"
    /\ quiet' = TRUE
    /\ UNCHANGED <<folder, stateFile, outFile, now, runs, memory>>
    /\ UNCHANGED <<fetcher, dates>>

Next ==
    \/ \E name \in Names, c \in {0} \cup Contents : EditFolder(name, c)
    \/ FatalExit
    \/ \E resume \in BOOLEAN, prune \in BOOLEAN : StartRun(resume, prune)
    \/ SkipUnchanged
    \/ SkipZeroWords
    \/ \E meta \in Metas : ProcessOk(meta)
    \/ ProcessFail
    \/ SaveOutput
    \/ SaveState
    \/ WriteCsv

Spec == Init /\ [][Next]_vars

\* The process is stopped from outside (a signal, a power cut) somewhere between
\* two of its steps; nothing catches it, so whatever save_json (lines 55-57) has
\* written by then stays on disk and the rest is never written. The variables
\* of the process keep what it held when it stopped.
Interrupt ==
    /\ pc \notin {"idle", "killed"}
    /\ pc' = "killed"
    /\ exitCode' = 130
    /\ UNCHANGED <<folder, persisted, now, runs, memory, quiet>>
    /\ UNCHANGED <<fetcher, dates>>

NextKill == Next \/ Interrupt

SpecKill == Init /\ [][NextKill]_vars

\* ------------------------------------------------------ attachment fetcher
\* A file name is its stem and its suffix (Path.stem, Path.suffix: the part from
\* the last dot on); a part's filename may carry a directory in front.
MaxMsgs == 2

MaxParts == 2

Name(stem, suffix) == [stem |-> stem, suffix |-> suffix]

Report == Name("report", ".docx")

\* The parts a message may consist of: what lines 79-93 look at.
Parts ==
    { [cdisp |-> "inline",     dir |-> "",    filename |-> Report,                  payload |-> TRUE],
      [cdisp |-> "attachment", dir |-> "",    filename |-> NoName,                  payload |-> TRUE],
      [cdisp |-> "attachment", dir |-> "",    filename |-> Name("notes", ".txt"),   payload |-> TRUE],
      [cdisp |-> "attachment", dir |-> "",    filename |-> Report,                  payload |-> FALSE],
      [cdisp |-> "attachment", dir |-> "",    filename |-> Report,                  payload |-> TRUE],
      [cdisp |-> "Attachment", dir |-> "../", filename |-> Name("re:port", ".DOCX"), payload |-> TRUE],
      [cdisp |-> "attachment", dir |-> "",    filename |-> Name("re-port", ".DOCX"), payload |-> TRUE] }

\* str.lower() on the values that occur.
Lower(str) ==
    CASE str = "Attachment" -> "attachment"
      [] str = ".DOCX" -> ".docx"
      [] OTHER -> str

\* Lines 23-27: the characters / \ : * ? " < > | become "-" (runs of them one "-"),
\* white space is collapsed. The cut at 180 characters is beyond the names here.
safe_filename(name) ==
    [name EXCEPT !.stem = CASE name.stem = "re:port" -> "re-port" [] OTHER -> name.stem]

\* Lines 79-93: the part is an attachment with a filename ending in .docx and a
\* payload that is not empty.
Wanted(part) ==
    /\ Lower(part.cdisp) = "attachment"
    /\ part.filename # NoName
    /\ Lower(part.filename.suffix) = ".docx"
    /\ part.payload

\* Line 95: Path(filename).name, the filename without its directories.
PathName(part) == part.filename

\* Line 104: f"{stem} ({n}){suffix}".
Alt(clean, n) == [clean EXCEPT !.stem = clean.stem \o " (" \o ToString(n) \o ")"]

\* Faulty variant: the search for a free name stops at the first candidate.
FreeNFirst(dir, clean, n) == n

\* Lines 103-108: the first n, counting up, whose name is not in the folder.
RECURSIVE FreeN(_, _, _)
FreeN(dir, clean, n) ==
    IF Alt(clean, n) \notin dir THEN n ELSE FreeN(dir, clean, n + 1)

\* Lines 96-108: the sanitized name if it is free, else the first free
\* "<stem> (n)<suffix>" from n = 2 on.
Target(dir, clean) ==
    IF clean \in dir THEN Alt(clean, FreeN(dir, clean, 2)) ELSE clean

\* Faulty variant: every run reports that files were saved.
ExitStatusAlwaysSaved(any) == 10

\* Line 121: sys.exit(10 if saved_any else 0).
ExitStatus(any) == IF any THEN 10 ELSE 0

\* The files the folder may hold before the fetcher runs.
EarlierFiles == {Report, Alt(Report, 2), Alt(Report, 3)}

InitFetch ==
    /\ env \in [user : BOOLEAN, app_pass : BOOLEAN]
    /\ out_dir \in SUBSET EarlierFiles
    /\ dir_made = FALSE
    /\ contacted = FALSE
    /\ seen = {}
    /\ fpc = "start"
    /\ ids = <<>>
    /\ msg = 1
    /\ walked = 0
    /\ saved_any = FALSE
    /\ saved_this_msg = FALSE
    /\ fexit = -1
    /\ stored = {}
    /\ savedFrom = [id \in 1..MaxMsgs |-> {}]
    /\ lastSave = NoSave
    /\ InitProcessor
    /\ outFile = NoOutput
    /\ DatesAbsent

\* Lines 41-43: a credential is missing.
MissingCredentials ==
    /\ fpc = "start"
    /\ ~(env.user /\ env.app_pass)
    /\ fexit' = 2
    /\ fpc' = "exited"
    /\ UNCHANGED <<env, out_dir, dir_made, contacted, seen, ids, msg, walked, saved_any,
                   saved_this_msg, stored, savedFrom, lastSave>>
    /\ UNCHANGED <<processor, dates>>

\* Lines 45-46: the output folder is created if it is not there.
Mkdir ==
    /\ fpc = "start"
    /\ env.user /\ env.app_pass
    /\ dir_made' = TRUE
    /\ fpc' = "connect"
    /\ UNCHANGED <<env, out_dir, contacted, seen, ids, msg, walked, saved_any,
                   saved_this_msg, fexit, stored, savedFrom, lastSave>>
    /\ UNCHANGED <<processor, dates>>

\* Lines 48-51: connect, log in, select the mailbox.
Connect ==
    /\ fpc = "connect"
    /\ contacted' = TRUE
    /\ fpc' = "search"
    /\ UNCHANGED <<env, out_dir, dir_made, seen, ids, msg, walked, saved_any,
                   saved_this_msg, fexit, stored, savedFrom, lastSave>>
    /\ UNCHANGED <<processor, dates>>

\* Lines 53-56: the search does not answer OK.
SearchNotOk ==
    /\ fpc = "search"
    /\ fexit' = 0
    /\ fpc' = "exited"
    /\ UNCHANGED <<env, out_dir, dir_made, contacted, seen, ids, msg, walked, saved_any,
                   saved_this_msg, stored, savedFrom, lastSave>>
    /\ UNCHANGED <<processor, dates>>

\* Lines 53-63: the search answers with n message ids; none ends the run with 0.
SearchOk(n) ==
    /\ fpc = "search"
    /\ ids' = [k \in 1..n |-> k]
    /\ IF n = 0
       THEN fexit' = 0 /\ fpc' = "exited"
       ELSE fexit' = fexit /\ fpc' = "fetch"
    /\ saved_any' = FALSE
    /\ msg' = 1
    /\ UNCHANGED <<env, out_dir, dir_made, contacted, seen, walked, saved_this_msg,
                   stored, savedFrom, lastSave>>
    /\ UNCHANGED <<processor, dates>>

MoreMessages == fpc = "fetch" /\ msg \in DOMAIN ids

\* Lines 66-68: the fetch of the message does not answer OK; on to the next.
FetchNotOk ==
    /\ MoreMessages
    /\ msg' = msg + 1
    /\ UNCHANGED <<env, out_dir, dir_made, contacted, seen, fpc, ids, walked, saved_any,
                   saved_this_msg, fexit, stored, savedFrom, lastSave>>
    /\ UNCHANGED <<processor, dates>>

\* Lines 66-77: the message is fetched with "(RFC822)". The mailbox was selected
\* for writing (line 51, no readonly), where a server sets \Seen on a message
\* whose body is fetched this way (RFC 3501, 6.4.5); a server that opened the
\* mailbox read-only does not. Both outcomes occur: flagged says which.
FetchOk(flagged) ==
    /\ MoreMessages
    /\ seen' = IF flagged THEN seen \cup {ids[msg]} ELSE seen
    /\ saved_this_msg' = FALSE
    /\ walked' = 0
    /\ fpc' = "walk"
    /\ UNCHANGED <<env, out_dir, dir_made, contacted, ids, msg, saved_any, fexit,
                   stored, savedFrom, lastSave>>
    /\ UNCHANGED <<processor, dates>>

\* Lines 78-93: a part that is passed over.
SkipPart(part) ==
    /\ fpc = "walk"
    /\ walked < MaxParts
    /\ ~Wanted(part)
    /\ walked' = walked + 1
    /\ UNCHANGED <<env, out_dir, dir_made, contacted, seen, fpc, ids, msg, saved_any,
                   saved_this_msg, fexit, stored, savedFrom, lastSave>>
    /\ UNCHANGED <<processor, dates>>

\* Lines 95-115: a .docx attachment is written into the folder.
SavePart(part) ==
    /\ fpc = "walk"
    /\ walked < MaxParts
    /\ Wanted(part)
    /\ LET clean == safe_filename(PathName(part))
           target == Target(out_dir, clean)
       IN  /\ out_dir' = out_dir \cup {target}
           /\ savedFrom' = [savedFrom EXCEPT ![ids[msg]] = @ \cup {target}]
           /\ lastSave' = [valid |-> TRUE, from |-> ids[msg], clean |-> clean,
                           target |-> target, before |-> out_dir]
    /\ saved_any' = TRUE
    /\ saved_this_msg' = TRUE
    /\ walked' = walked + 1
    /\ UNCHANGED <<env, dir_made, contacted, seen, fpc, ids, msg, fexit, stored>>
    /\ UNCHANGED <<processor, dates>>

\* Lines 117-119: the message has no more parts; it is marked as seen if
\* something was saved from it.
EndMessage ==
    /\ fpc = "walk"
    /\ IF saved_this_msg
       THEN seen' = seen \cup {ids[msg]} /\ stored' = stored \cup {ids[msg]}
       ELSE seen' = seen /\ stored' = stored
    /\ msg' = msg + 1
    /\ fpc' = "fetch"
    /\ UNCHANGED <<env, out_dir, dir_made, contacted, ids, walked, saved_any,
                   saved_this_msg, fexit, savedFrom, lastSave>>
    /\ UNCHANGED <<processor, dates>>

\* Line 121: all messages are done.
Exit ==
    /\ fpc = "fetch"
    /\ msg \notin DOMAIN ids
    /\ fexit' = ExitStatus(saved_any)
    /\ fpc' = "exited"
    /\ UNCHANGED <<env, out_dir, dir_made, contacted, seen, ids, msg, walked, saved_any,
                   saved_this_msg, stored, savedFrom, lastSave>>
    /\ UNCHANGED <<processor, dates>>

\* A call on the mailbox (lines 48-53, 66, 119) or the write (line 110) raises.
\* There is no except clause: the finally of lines 123-127 logs out and the
\* interpreter ends with status 1.
Raise ==
    /\ fpc \in {"connect", "search", "fetch", "walk"}
    /\ fexit' = 1
    /\ fpc' = "exited"
    /\ UNCHANGED <<env, out_dir, dir_made, contacted, seen, ids, msg, walked, saved_any,
                   saved_this_msg, stored, savedFrom, lastSave>>
    /\ UNCHANGED <<processor, dates>>

NextFetch ==
    \/ MissingCredentials
    \/ Mkdir
    \/ Connect
    \/ SearchNotOk
    \/ \E n \in 0..MaxMsgs : SearchOk(n)
    \/ FetchNotOk
    \/ \E flagged \in BOOLEAN : FetchOk(flagged)
    \/ \E part \in Parts : SkipPart(part)
    \/ \E part \in Parts : SavePart(part)
    \/ EndMessage
    \/ Exit
    \/ Raise

SpecFetch == InitFetch /\ [][NextFetch]_vars

\* ------------------------------------------------------- date resolution
\* The first matches of the two filename patterns, the long-form dates of the
\* text and the date of the service's answer (stripped), for one document.
IsoMatches == {NoDate, <<2024, 3, 5>>, <<2024, 2, 30>>, <<2024, 13, 1>>, <<2023, 2, 29>>}

UsMatches == {NoDate, <<12, 31, 2023>>, <<31, 12, 2023>>, <<2, 29, 2024>>}

Texts ==
    { <<>>,
      <<LongForm(1, "mar", 1, 2024)>>,
      <<LongForm(HeadLines, "sep", 30, 2022)>>,
      <<LongForm(HeadLines + 1, "mar", 1, 2024)>>,
      <<LongForm(2, "feb", 30, 2024)>>,
      <<LongForm(2, "feb", 30, 2024), LongForm(3, "mar", 1, 2024)>>,
      <<LongForm(3, "jun", 31, 2024), LongForm(HeadLines + 1, "mar", 1, 2024)>> }

ServiceDates == {"", "2024-03-02"}

InitDates ==
    /\ doc \in [iso : IsoMatches, us : UsMatches, text : Texts, ai : ServiceDates]
    /\ resolved = Unresolved
    /\ InitProcessor
    /\ outFile = NoOutput
    /\ FetcherAbsent

\* Lines 254-266 for one successfully processed document.
ResolveDate ==
    /\ ~resolved.done
    /\ LET file == FilenameDate(doc.iso, doc.us)
           guess == IF file # "" THEN file ELSE TextDate(doc.text)
       IN  resolved' = [done |-> TRUE,
                        date |-> final_date(guess, doc.ai),
                        dateSource |-> date_source(guess, doc.ai)]
    /\ UNCHANGED <<doc, processor, fetcher>>

NextDates == ResolveDate

SpecDates == InitDates /\ [][NextDates]_vars

\* A run has just completed (exit status 0 or 10) and its results are in place.
Completed == pc = "idle" /\ exitCode \in {0, 10}

\* The Articles of a sequence, and the sourceFile values it holds.
Elems(arts) == {arts[k] : k \in DOMAIN arts}

Sources(arts) == {arts[k].sourceFile : k \in DOMAIN arts}

\* This run began right after a completed run, with the folder and the persisted
\* files as that run left them, and runs with --resume.
SecondRun == prev.valid /\ args.resume

\* ---------------------------------------------------------------- claims
\* C1: a run with --resume that follows a completed run over an unchanged folder
\* and unchanged persisted files skips every document (no extraction, no inference
\* call), upserts nothing (updated = 0) and exits with 0, whatever the first run
\* did with each document.
C1_SecondRunSkipsEverything ==
    SecondRun =>
        /\ \A n \in Names : outcome[n] \in {"-", "skip"}
        /\ updated = 0
        /\ errors = <<>>
        /\ Completed =>
              /\ \A n \in ListedNames : outcome[n] = "skip"
              /\ exitCode = 0

\* C1 witness: the second run is over, and the first had processed one document
\* successfully and failed on the other.
C1_Witness ==
    /\ Completed /\ SecondRun
    /\ \E n, m \in ListedNames : prev.outcome[n] = "ok" /\ prev.outcome[m] = "fail"

\* C2 as stated: the output document written by the second of two such runs
\* (same options) equals the one the first wrote, timestamp and error list included.
C2_ByteIdenticalOutput ==
    (Completed /\ SecondRun /\ prev.args = args) => outFile = prev.out

\* C2 as amended: the second run writes the same Article sequence as the first;
\* its generation timestamp is the time of its own write and its error list is
\* its own, which is empty.
C2_SameArticlesNewStampNoErrors ==
    (Completed /\ SecondRun /\ prev.args = args) =>
        /\ outFile.articles = prev.out.articles
        /\ outFile.generatedAt = now
        /\ outFile.errors = <<>>

\* C2 witness: the second run is over, the first had recorded an error, and the
\* collection holds two Articles that compare equal in the sort.
C2_Witness ==
    /\ Completed /\ SecondRun /\ prev.args = args
    /\ prev.out.errors # <<>>
    /\ \E j, k \in DOMAIN outFile.articles :
          j # k /\ KeyEq(outFile.articles[j], outFile.articles[k])

\* The output file holds what the current or the last completed run wrote.
Written == pc \in {"save_state", "write_csv"} \/ Completed

\* C3: no two Articles of a written output collection share a sourceFile,
\* whatever the carried-forward collection held.
C3_UniqueSourceFile ==
    Written =>
        \A j, k \in DOMAIN outFile.articles :
            outFile.articles[j].sourceFile = outFile.articles[k].sourceFile => j = k

\* C3 witness: a run has written its output after carrying forward a collection
\* in which two Articles share a sourceFile.
C3_Witness ==
    /\ Written
    /\ \E j, k \in DOMAIN carried :
          j # k /\ carried[j].sourceFile = carried[k].sourceFile
                /\ carried[j].sourceFile \in Sources(outFile.articles)

\* The listing still describes the folder: the run is under way, or it completed
\* and nothing was touched since.
FolderAsListed == pc # "idle" \/ (Completed /\ quiet)

\* The Articles of a sequence that carry sourceFile n.
For(arts, n) == {a \in Elems(arts) : a.sourceFile = n}

\* C4: with --prune, the written output collection holds no Article whose
\* sourceFile is absent from the folder listing taken at the start of the run.
C4_PruneLeavesOnlyListed ==
    (Written /\ args.prune) => Sources(outFile.articles) \subseteq ListedNames

\* C4 witness: a run with --prune has written a non-empty output after carrying
\* forward an Article whose document is no longer in the folder.
C4_Witness ==
    /\ Written /\ args.prune
    /\ outFile.articles # <<>>
    /\ \E sf \in Sources(carried) : sf # "" /\ sf \notin ListedNames

\* C5: with --prune, every sourceFile of the carried-forward collection that is
\* still among the folder's documents still has an Article in the written output.
C5_PruneKeepsListed ==
    (Written /\ args.prune) =>
        \A sf \in Sources(carried) \cap ListedNames : sf \in Sources(outFile.articles)

\* C5 witness: a run with --prune has written its output; it pruned one carried
\* Article and carried another whose document was listed and not processed anew.
C5_Witness ==
    /\ Written /\ args.prune
    /\ \E sf \in Sources(carried) : sf # "" /\ sf \notin ListedNames
    /\ \E sf \in Sources(carried) \cap ListedNames : outcome[sf] \in {"skip", "empty", "fail"}

\* C6: when inference throws for document n, the run records an error for n,
\* leaves the Articles held for n as they were carried forward and stores n's
\* current fingerprint; a following --resume run over the unchanged folder skips
\* n: no inference call, no error record, no new Article.
C6_FailureLocksFingerprint ==
    \A n \in Names :
        /\ (FolderAsListed /\ outcome[n] = "fail") =>
              /\ \E k \in DOMAIN errors : errors[k].file = n
              /\ state[n] = sha256_file(folder[n])
              /\ For(articles, n) \subseteq Elems(carried)
              /\ Completed =>
                    /\ \E k \in DOMAIN outFile.errors : outFile.errors[k].file = n
                    /\ stateFile[n] = sha256_file(folder[n])
                    /\ For(outFile.articles, n) \subseteq Elems(carried)
        /\ (SecondRun /\ prev.outcome[n] = "fail") =>
              /\ outcome[n] \in {"-", "skip"}
              /\ \A k \in DOMAIN errors : errors[k].file # n
              /\ Completed =>
                    /\ outcome[n] = "skip"
                    /\ For(outFile.articles, n) = For(prev.out.articles, n)

\* C6 witness: a --resume run has completed and skipped a document on which the
\* run before it had failed.
C6_Witness ==
    /\ Completed /\ SecondRun
    /\ \E n \in ListedNames : prev.outcome[n] = "fail" /\ outcome[n] = "skip"

\* C7 as stated: after a run that examined document n and found it without
\* words, the output collection holds no Article whose sourceFile is n.
C7_NoArticleForEmptyDocument ==
    \A n \in Names :
        (Completed /\ outcome[n] = "empty") => n \notin Sources(outFile.articles)

\* C7 as amended: a document examined and found without words gets no new or
\* updated Article in that run: every Article the run holds or writes for it is
\* one the carried-forward collection already held, and a run without --resume
\* writes none.
C7_NoFreshArticleForEmptyDocument ==
    \A n \in Names :
        (FolderAsListed /\ outcome[n] \notin {"-", "skip"} /\ word_count(folder[n]) = 0) =>
            /\ outcome[n] = "empty"
            /\ For(articles, n) \subseteq Elems(carried)
            /\ Written => For(outFile.articles, n) \subseteq Elems(carried)
            /\ (Written /\ ~args.resume) => n \notin Sources(outFile.articles)

\* C7 witness: a run has completed that found a document without words while the
\* output still holds the Article of an earlier version of it.
C7_Witness ==
    /\ Completed /\ quiet
    /\ \E n \in ListedNames : outcome[n] = "empty" /\ n \in Sources(outFile.articles)

\* C8: a document found without words has its current fingerprint stored in the
\* persisted state, and a following --resume run over the unchanged file skips it.
C8_EmptyDocumentFingerprinted ==
    \A n \in Names :
        /\ (FolderAsListed /\ outcome[n] = "empty") =>
              /\ state[n] = sha256_file(folder[n])
              /\ Completed => stateFile[n] = sha256_file(folder[n])
        /\ (SecondRun /\ prev.outcome[n] = "empty") =>
              /\ outcome[n] \in {"-", "skip"}
              /\ Completed => outcome[n] = "skip"

\* C8 witness: a --resume run has completed and skipped a document that the run
\* before it had found without words.
C8_Witness ==
    /\ Completed /\ SecondRun
    /\ \E n \in ListedNames : prev.outcome[n] = "empty" /\ outcome[n] = "skip"

\* The place of an Article in a sequence that holds it once.
Pos(arts, a) == CHOOSE k \in DOMAIN arts : arts[k] = a

ExampleB == Old("b.docx", "B", "2024-03-01")

ExampleA == Old("a.docx", "A", "2024-03-01")

ExampleZ == Old("c.docx", "Z", "")

\* C9: the written Article sequence is the deduplicated in-memory sequence ordered
\* by date descending, then title descending; Articles that compare equal keep the
\* order they had in it, and Articles with an empty date come after all dated
\* ones; (2024-03-01, B), (2024-03-01, A), ("", Z) come out as B, A, Z.
C9_SortedOutput ==
    /\ Written =>
          LET out == outFile.articles
          IN /\ Len(out) = Len(dedup)
             /\ Elems(out) = Elems(dedup)
             /\ \A j, k \in DOMAIN out :
                   j < k =>
                     /\ ~KeyLess(out[j], out[k])
                     /\ KeyEq(out[j], out[k]) => Pos(dedup, out[j]) < Pos(dedup, out[k])
                     /\ out[j].date = "" => out[k].date = ""
    /\ \A in \in { <<ExampleB, ExampleA, ExampleZ>>, <<ExampleZ, ExampleA, ExampleB>>,
                    <<ExampleA, ExampleZ, ExampleB>> } :
          SortedArticles(in) = <<ExampleB, ExampleA, ExampleZ>>

\* C9 witness: a written collection of three Articles, two of them equal in the
\* sort and one without a date, that the sort had to reorder.
C9_Witness ==
    /\ Written
    /\ Len(outFile.articles) = 3
    /\ outFile.articles # dedup
    /\ KeyEq(outFile.articles[1], outFile.articles[2])
    /\ outFile.articles[3].date = ""

\* C10 as stated, for a run that follows a completed run without --resume (so
\* every Article it carries forward was produced by that run): the missing-date
\* report is the header row plus exactly one row for each Article of the run's
\* output collection whose date is empty.
C10_ReportCoversOutput ==
    (Completed /\ prev.valid /\ ~prev.args.resume) =>
        LET undated == SelectSeq(outFile.articles, LAMBDA a : a.date = "")
        IN /\ csvFile[1] = CsvHeader
           /\ Len(csvFile) = 1 + Len(undated)
           /\ \A k \in DOMAIN undated :
                 \E r \in 2..Len(csvFile) :
                     csvFile[r] = <<undated[k].sourceFile, undated[k].title,
                                    undated[k].wordCount>>

\* A collection as the processor writes it: every Article names a sourceFile and
\* no two name the same.
WellFormed(arts) ==
    /\ "" \notin Sources(arts)
    /\ \A j, k \in DOMAIN arts : arts[j].sourceFile = arts[k].sourceFile => j = k

\* C11 as stated, for a --resume run over a well-formed collection: a completed
\* run exits with 0 only if the Articles it wrote are those it carried forward
\* (none added, replaced or pruned), and with 10 otherwise.
C11_ExitCodeTellsChange ==
    (Completed /\ args.resume /\ WellFormed(carried)) =>
        (exitCode = 0 <=> Elems(outFile.articles) = Elems(carried))

\* C15 as stated: a fingerprint enters the persisted map for a document only in
\* a run that fully processed it (inference succeeded, Article upserted) or
\* skipped it as empty, and it is the fingerprint of the content it then had.
C15_FingerprintMeansProcessedOrEmpty ==
    [][\A n \in Names :
          stateFile'[n] # stateFile[n] =>
              /\ outcome[n] \in {"ok", "empty"}
              /\ stateFile'[n] = sha256_file(folder[n])]_vars

\* C15 as amended: a fingerprint enters the persisted map for a document only in
\* a run that examined it with the content of that fingerprint: fully processed,
\* skipped as empty, or attempted with the inference call failing.
C15_FingerprintMeansExamined ==
    [][\A n \in Names :
          stateFile'[n] # stateFile[n] =>
              /\ outcome[n] \in {"ok", "empty", "fail"}
              /\ stateFile'[n] = sha256_file(folder[n])]_vars

\* C15 witness: a completed run has persisted, for the first time, the fingerprint
\* of a document on which inference failed.
C15_Witness ==
    /\ Completed /\ quiet /\ ~prev.valid /\ runs = 1
    /\ \E n \in ListedNames :
          outcome[n] = "fail" /\ stateFile[n] = sha256_file(folder[n])

\* C16: when inference fails for document n, exactly one error record naming n
\* is appended, no Article in memory changes (not n's, not another document's),
\* the loop moves on to the next document, and the run examines every listed
\* document.
C16_FailureIsolated ==
    /\ [][\A n \in Names :
            (outcome[n] = "-" /\ outcome'[n] = "fail") =>
                /\ errors' = Append(errors, [file |-> n])
                /\ articles' = articles
                /\ updated' = updated
                /\ \A m \in Names \ {n} : outcome'[m] = outcome[m]
                /\ pc' = "loop" /\ i' = i + 1 /\ docx_files' = docx_files]_vars
    /\ [](Written =>
            /\ \A n \in ListedNames : outcome[n] # "-"
            /\ \A n \in Names :
                  Cardinality({k \in DOMAIN errors : errors[k].file = n})
                      = IF outcome[n] = "fail" THEN 1 ELSE 0)

\* C16 witness: a run has completed in which inference failed for the first
\* listed document, which had a carried-forward Article, and succeeded for the
\* second.
C16_Witness ==
    /\ Completed
    /\ Len(docx_files) = 2
    /\ outcome[docx_files[1]] = "fail" /\ outcome[docx_files[2]] = "ok"
    /\ docx_files[1] \in Sources(outFile.articles)

\* Some other place of the sequence holds an Article with the sourceFile of place k.
Duplicated(arts, k) ==
    \E j \in DOMAIN arts : j # k /\ arts[j].sourceFile = arts[k].sourceFile

\* Article a of the carried-forward collection was pruned: --prune is on and its
\* sourceFile names no listed document.
PrunedAway(a) == args.prune /\ a.sourceFile # "" /\ a.sourceFile \notin ListedNames

\* Article a's document was processed successfully in this run.
Reprocessed(a) == a.sourceFile \in Names /\ outcome[a.sourceFile] = "ok"

\* C17 as stated: an Article of the carried-forward collection is missing from
\* the written collection only if it was pruned or its document was processed
\* anew in this run.
C17_OnlyPruneDeletes ==
    Written =>
        \A k \in DOMAIN carried :
            carried[k] \notin Elems(outFile.articles) =>
                PrunedAway(carried[k]) \/ Reprocessed(carried[k])

\* C17 as amended: an Article of the carried-forward collection is missing from
\* the written collection only if it was pruned, its document was processed anew
\* in this run, or deduplication dropped it: it names no sourceFile, or another
\* carried Article names the same one.
C17_OnlyPruneUpsertDedupDelete ==
    Written =>
        \A k \in DOMAIN carried :
            carried[k] \notin Elems(outFile.articles) =>
                \/ PrunedAway(carried[k])
                \/ Reprocessed(carried[k])
                \/ carried[k].sourceFile = ""
                \/ Duplicated(carried, k)

\* C17 witness: a run with --prune has written its output; it pruned one carried
\* Article and kept another whose document it skipped, found empty or failed on.
C17_Witness ==
    /\ Written /\ args.prune
    /\ \E k \in DOMAIN carried : PrunedAway(carried[k])
    /\ \E k \in DOMAIN carried :
          /\ carried[k].sourceFile \in ListedNames
          /\ outcome[carried[k].sourceFile] \in {"skip", "empty", "fail"}
          /\ carried[k] \in Elems(outFile.articles)

\* C20 as stated: for every document processed successfully in a run, the written
\* collection holds an Article with its sourceFile, and it is the one produced in
\* this run, not one that was carried forward.
C20_FreshArticleWins ==
    \A n \in Names :
        (Written /\ outcome[n] = "ok") =>
            /\ For(outFile.articles, n) # {}
            /\ For(outFile.articles, n) \cap Elems(carried) = {}

\* C18 as stated: a run with --resume that is interrupted before it completes
\* leaves the output file as the prior run left it: the Articles on disk are the
\* ones the interrupted run loaded at its start.
C18_InterruptLosesWholeRun ==
    (pc = "killed" /\ args.resume) => outFile.articles = carried

\* The files the fetcher has written in this run.
SavedFiles == UNION {savedFrom[id] : id \in DOMAIN savedFrom}

\* C12: the fetcher never overwrites a file: each write creates a name that was
\* not in the folder, which is the sanitized name if that was free and otherwise
\* "<stem> (N)<ext>" for the smallest N >= 2 not taken; no step removes a file
\* from the folder.
C12_NeverOverwrites ==
    /\ [](lastSave.valid =>
            /\ lastSave.target \notin lastSave.before
            /\ lastSave.clean \notin lastSave.before => lastSave.target = lastSave.clean
            /\ lastSave.clean \in lastSave.before =>
                  \E n \in 2..(Cardinality(lastSave.before) + 2) :
                      /\ lastSave.target = Alt(lastSave.clean, n)
                      /\ \A k \in 2..(n - 1) : Alt(lastSave.clean, k) \in lastSave.before)
    /\ [][/\ out_dir \subseteq out_dir'
          /\ out_dir' # out_dir => out_dir' = out_dir \cup {lastSave'.target}]_vars

\* C12 witness: the folder held report.docx before the run; two attachments
\* named report.docx were saved in one run, as "report (2).docx" and then as
\* "report (3).docx".
C12_Witness ==
    /\ lastSave.valid
    /\ lastSave.clean = Report
    /\ lastSave.target = Alt(Report, 3)
    /\ Report \in out_dir \ SavedFiles
    /\ SavedFiles = {Alt(Report, 2), Alt(Report, 3)}

\* C13 as stated: when the fetcher has ended its run, a message carries the
\* seen mark only if at least one attachment was saved from it in this run; a
\* message from which nothing was saved has not been marked.
C13_SeenOnlyAfterSave ==
    (fpc = "exited" /\ fexit \in {0, 10}) =>
        \A id \in seen : savedFrom[id] # {}

\* C14 as stated: the fetcher ends with 2 exactly when a credential is missing,
\* and then neither the folder was created nor the mailbox contacted; with 10
\* exactly when at least one file was saved during the run; with 0 only when
\* nothing was saved.
C14_ExitStatusTellsOutcome ==
    fpc = "exited" =>
        /\ fexit = 2 <=> ~(env.user /\ env.app_pass)
        /\ fexit = 2 => ~dir_made /\ ~contacted
        /\ fexit = 10 <=> SavedFiles # {}
        /\ fexit = 0 => SavedFiles = {}

\* C14 as amended: the fetcher ends with 2 exactly when a credential is missing,
\* and then neither the folder was created nor the mailbox contacted; a run
\* that reaches its own exit ends with 10 if it saved at least one file and
\* with 0 if it saved none; a run cut short by an exception ends with 1,
\* whatever it saved before.
C14_ExitStatusOfOwnExit ==
    fpc = "exited" =>
        /\ fexit \in {0, 1, 2, 10}
        /\ fexit = 2 <=> ~(env.user /\ env.app_pass)
        /\ fexit = 2 => ~dir_made /\ ~contacted /\ SavedFiles = {}
        /\ fexit = 10 => SavedFiles # {}
        /\ fexit = 0 => SavedFiles = {}
        /\ fexit = 1 => dir_made

\* C14 witness: a run over two messages ended with 10 after saving from one of
\* them and nothing from the other.
C14_Witness ==
    /\ fpc = "exited" /\ fexit = 10
    /\ Len(ids) = 2
    /\ savedFrom[1] = {} /\ savedFrom[2] # {}

\* A real calendar date of the years 2000 to 2099, where every fourth year is a
\* leap year.
RealDate(y, mo, d) ==
    /\ mo \in 1..12
    /\ d >= 1
    /\ d <= (IF mo = 2 THEN (IF y % 4 = 0 THEN 29 ELSE 28)
             ELSE IF mo \in {4, 6, 9, 11} THEN 30 ELSE 31)

\* The dates the claim's sources offer for the document at hand, "" where a
\* source offers none: the first match of the year-first pattern, of the
\* month-first pattern, and of the long-form pattern in the first 20 lines.
IsoOffer ==
    IF doc.iso # NoDate /\ RealDate(doc.iso[1], doc.iso[2], doc.iso[3])
    THEN strftime(doc.iso[1], doc.iso[2], doc.iso[3]) ELSE ""

UsOffer ==
    IF doc.us # NoDate /\ RealDate(doc.us[3], doc.us[1], doc.us[2])
    THEN strftime(doc.us[3], doc.us[1], doc.us[2]) ELSE ""

TextOffer ==
    LET inHead == {k \in DOMAIN doc.text : doc.text[k].line <= 20}
    IN  IF inHead = {} THEN ""
        ELSE LET m == doc.text[CHOOSE k \in inHead : \A j \in inHead : k <= j]
             IN  IF RealDate(m.year, month_map(m.mon), m.day)
                 THEN strftime(m.year, month_map(m.mon), m.day) ELSE ""

\* C19: the Article's date is the valid date of the filename (year-first
\* pattern, then month-first pattern) if there is one, otherwise the valid
\* long-form date of the first 20 lines, otherwise the service's date, otherwise
\* empty; a match that is no calendar date offers nothing; the provenance is
\* "filename/text" exactly when a filename or text date was used, "ai" exactly
\* when the service's date was used, "" exactly when the date is empty.
C19_DatePrecedence ==
    resolved.done =>
        LET deterministic == IF IsoOffer # "" THEN IsoOffer
                             ELSE IF UsOffer # "" THEN UsOffer ELSE TextOffer
        IN  /\ resolved.date = (IF deterministic # "" THEN deterministic ELSE doc.ai)
            /\ resolved.dateSource = "filename/text" <=> deterministic # ""
            /\ resolved.dateSource = "ai" <=> (deterministic = "" /\ doc.ai # "")
            /\ resolved.dateSource = "" <=> resolved.date = ""
            /\ resolved.dateSource \in {"filename/text", "ai", ""}

\* C19 witness: the filename's year-first match is no calendar date, its
\* month-first match is one, the text holds another valid date in its head and
\* the service answered a third; the month-first date was taken.
C19_Witness ==
    /\ resolved.done
    /\ doc.iso = <<2024, 2, 30>> /\ doc.us = <<12, 31, 2023>>
    /\ doc.text = <<LongForm(1, "mar", 1, 2024)>> /\ doc.ai = "2024-03-02"
    /\ resolved.date = "2023-12-31" /\ resolved.dateSource = "filename/text"

====
